---- MODULE Spec2Model ----
(***************************************************************************)
(* GPU Monitor: the sampling / history / alerting engine driven by the     *)
(* one-second QTimer of GPU_Monitor_App (src/gpu_monitor_app.py) and the   *)
(* telemetry adapter get_nvidia_stats (src/utils.py).                      *)
(*                                                                         *)
(* One timer timeout runs update_stats as one atomic step (the GUI thread  *)
(* runs the slot to completion).  What the NVML backend, the Qt widgets    *)
(* and the two alert sinks do during that step is the step's input.        *)
(***************************************************************************)
EXTENDS Integers, Sequences, FiniteSets, TLC

\* ------------------------------------------------------------------ bounds

\* Largest number of devices nvmlDeviceGetCount reports in the model.
MaxDevices == 2

\* Timer periods explored under Spec.
MaxTicks == 3

\* Ticks of a run of Spec in which a fault is injected.
MaxFaultyTicks == 1

\* Faults injected into the one tick of SpecSample.
MaxFaultsPerTick == 2

\* Timer periods explored under SpecSingle.
MaxSingleTicks == 5

\* Timer periods explored under the long-run specification SpecLong.
MaxLongTicks == 63

\* Groups of compute processes a device reports under SpecProcs.
MaxBlocks == 6

\* Clicks on "Save Settings" explored under SpecSettings.
MaxSaves == 1

\* ------------------------------------------------------- program constants

\* self.buffer_size: capacity of every history deque.
buffer_size == 60

\* display_processes = processes[:20]
display_budget == 20

\* proc.get('name', 'N/A')[:50]
name_budget == 50

\* 1024 ** 2, the bytes of one MiB.
MiB == 1048576

\* The four alerting / plotted metrics, in the order check_alerts evaluates
\* them.
MetricOrder == <<"temperature", "utilization", "memory_utilization", "power_draw">>

Metrics == {MetricOrder[k] : k \in 1..Len(MetricOrder)}

\* argparse defaults of --temp, --util, --mem-util, --power.
DefaultThresholds ==
    [temperature |-> 80, utilization |-> 90,
     memory_utilization |-> 90, power_draw |-> 250]

\* The nine NVML queries get_nvidia_stats wraps in a try/except each.  The
\* power try block holds two calls (usage, enforced limit): "power" fails
\* when either raises.
Queries ==
    {"name", "memory", "utilization", "temperature", "power", "fan",
     "clock", "compute_procs", "graphics_procs"}

\* ------------------------------------------------------- backend readings

\* What one device would answer to each query at one tick.  Memory is in
\* bytes, power in milliwatts, as NVML reports them.
NoProcs == <<>>

Cool ==
    [name |-> "GPU", mem_total |-> 20 * MiB, mem_used |-> 17 * MiB,
     util_gpu |-> 50, util_mem |-> 40, temperature |-> 70,
     power_usage |-> 200000, power_limit |-> 260000,
     fan_speed |-> 30, clock |-> 1200,
     compute_procs |-> NoProcs, graphics_procs |-> NoProcs]

\* Every alerting metric exactly at its default threshold.
Edge ==
    [Cool EXCEPT !.mem_used = 18 * MiB, !.util_gpu = 90,
                 !.temperature = 80, !.power_usage = 250000]

\* Every alerting metric above its default threshold; one process holds a
\* compute and a graphics context, a second one a compute context.
Hot ==
    [Cool EXCEPT !.mem_used = 19 * MiB, !.util_gpu = 95,
                 !.temperature = 85, !.power_usage = 300000,
                 !.compute_procs = <<[pid |-> 7, usedGpuMemory |-> 5 * MiB],
                                     [pid |-> 9, usedGpuMemory |-> 20 * MiB]>>,
                 !.graphics_procs = <<[pid |-> 7, usedGpuMemory |-> 5 * MiB]>>]

\* A device whose memory query succeeds and reports total = 0.
ZeroMem == [Cool EXCEPT !.mem_total = 0, !.mem_used = 0]

\* get_process_name: /proc/<pid>/cmdline, "Unknown" when it cannot be read
\* or is empty.
get_process_name(pid) ==
    IF pid = 7 THEN "python train.py"
    ELSE IF pid = 9 THEN "blender"
    ELSE IF pid = 11
    THEN "/usr/bin/python3 /home/user/project/train.py --epochs 100 --batch 64"
    ELSE "Unknown"

\* ------------------------------------------------------------ fault inputs

\* What may go wrong during one tick, as seen by the code: an NVML call
\* raising NVMLError, a Qt widget call raising, notification.notify
\* raising, QSoundEffect raising inside play_sound_alert.
QueryFault(d, q) == [kind |-> "query", dev |-> d, query |-> q]

HandleFault(d) == [kind |-> "handle", dev |-> d, query |-> ""]

StatsTableFault == [kind |-> "stats_table", dev |-> 0, query |-> ""]

ProcessTablesFault == [kind |-> "process_tables", dev |-> 0, query |-> ""]

GraphFault(d) == [kind |-> "graphs", dev |-> d, query |-> ""]

NotifyFault == [kind |-> "notify", dev |-> 0, query |-> ""]

SoundFault == [kind |-> "sound", dev |-> 0, query |-> ""]

Fails(F, d, q) == QueryFault(d, q) \in F

\* ------------------------------------------------- utils.get_nvidia_stats

\* mem_info.total / (1024 ** 2) and proc.usedGpuMemory / (1024 ** 2): float
\* division, exact on the whole-MiB byte counts of the readings.
ToMiB(bytes) == bytes \div MiB

\* (mem_info.used / mem_info.total) * 100: float arithmetic, exact on the
\* byte counts of the readings (17, 18, 19 of 20 MiB give 85.0, 90.0, 95.0).
\* Only evaluated with total > 0.
MemoryUtilization(used, total) == (used * 100) \div total

\* nvmlDeviceGetPowerUsage(handle) / 1000: milliwatts to watts, exact on
\* the whole-watt power readings.
ToWatts(mw) == mw \div 1000

ProcEntries(procs, type) ==
    [k \in 1..Len(procs) |->
        [pid |-> procs[k].pid,
         used_memory |-> ToMiB(procs[k].usedGpuMemory),
         type |-> type,
         name |-> get_process_name(procs[k].pid)]]

\* Mutant of DeviceStat: one failed query blanks the device's whole sample.
DeviceStatBlanked(i, r, F) ==
    IF \E q \in Queries : Fails(F, i, q)
    THEN [gpu_index |-> i, name |-> "Unknown", memory_total |-> 0,
          memory_used |-> 0, memory_utilization |-> 0, utilization |-> 0,
          memory_utilization_rate |-> 0, temperature |-> 0, power_draw |-> 0,
          power_limit |-> 0, fan_speed |-> 0, clock_speed |-> 0,
          processes |-> <<>>]
    ELSE [gpu_index |-> i, name |-> r.name,
          memory_total |-> ToMiB(r.mem_total),
          memory_used |-> ToMiB(r.mem_used),
          memory_utilization |-> MemoryUtilization(r.mem_used, r.mem_total),
          utilization |-> r.util_gpu,
          memory_utilization_rate |-> r.util_mem,
          temperature |-> r.temperature,
          power_draw |-> ToWatts(r.power_usage),
          power_limit |-> ToWatts(r.power_limit),
          fan_speed |-> r.fan_speed, clock_speed |-> r.clock,
          processes |-> ProcEntries(r.compute_procs, "C")
                        \o ProcEntries(r.graphics_procs, "G")]

\* The body of the for loop for device i once its handle is obtained and
\* the memory block does not divide by zero.
DeviceStat(i, r, F) ==
    [gpu_index |-> i,
     name |-> IF Fails(F, i, "name") THEN "Unknown" ELSE r.name,
     memory_total |-> IF Fails(F, i, "memory") THEN 0 ELSE ToMiB(r.mem_total),
     memory_used |-> IF Fails(F, i, "memory") THEN 0 ELSE ToMiB(r.mem_used),
     memory_utilization |->
        IF Fails(F, i, "memory") THEN 0
        ELSE MemoryUtilization(r.mem_used, r.mem_total),
     utilization |-> IF Fails(F, i, "utilization") THEN 0 ELSE r.util_gpu,
     memory_utilization_rate |->
        IF Fails(F, i, "utilization") THEN 0 ELSE r.util_mem,
     temperature |-> IF Fails(F, i, "temperature") THEN 0 ELSE r.temperature,
     power_draw |-> IF Fails(F, i, "power") THEN 0 ELSE ToWatts(r.power_usage),
     power_limit |-> IF Fails(F, i, "power") THEN 0 ELSE ToWatts(r.power_limit),
     fan_speed |-> IF Fails(F, i, "fan") THEN 0 ELSE r.fan_speed,
     clock_speed |-> IF Fails(F, i, "clock") THEN 0 ELSE r.clock,
     processes |->
        (IF Fails(F, i, "compute_procs") THEN <<>>
         ELSE ProcEntries(r.compute_procs, "C"))
        \o (IF Fails(F, i, "graphics_procs") THEN <<>>
            ELSE ProcEntries(r.graphics_procs, "G"))]

\* Mutant of DeviceError: nothing raised while a device is sampled leaves
\* the loop.
DeviceErrorSwallowed(i, r, F) == "none"

\* The exception, if any, that leaves the loop body of device i: the handle
\* lookup is outside every try, and a successful memory query with
\* total = 0 raises ZeroDivisionError, which except pynvml.NVMLError does
\* not catch.
DeviceError(i, r, F) ==
    IF HandleFault(i) \in F THEN "NVMLError"
    ELSE IF ~Fails(F, i, "memory") /\ r.mem_total = 0 THEN "ZeroDivisionError"
    ELSE "none"

RECURSIVE StatsFrom(_, _, _, _, _)
StatsFrom(i, n, raw, F, acc) ==
    IF i >= n THEN [ok |-> TRUE, error |-> "none", stats |-> acc]
    ELSE IF DeviceError(i, raw[i + 1], F) # "none"
         THEN [ok |-> FALSE, error |-> DeviceError(i, raw[i + 1], F), stats |-> <<>>]
         ELSE StatsFrom(i + 1, n, raw, F, Append(acc, DeviceStat(i, raw[i + 1], F)))

\* get_nvidia_stats(device_count) against a backend that would answer raw
\* (raw[i + 1] for device i) with the faults F: the list of samples, or the
\* exception that propagates to the caller.
get_nvidia_stats(n, raw, F) == StatsFrom(0, n, raw, F, <<>>)

\* ------------------------------------- GPU_Monitor_App.update_process_tables

\* Mutant of InsertPos: an entry goes in front of the earlier entries of
\* equal used_memory (a sort that is not stable).
RECURSIVE InsertPosUnstable(_, _, _)
InsertPosUnstable(s, e, k) ==
    IF k > Len(s) THEN k
    ELSE IF s[k].used_memory <= e.used_memory THEN k
    ELSE InsertPosUnstable(s, e, k + 1)

\* Position at which e goes into the already sorted list s so that the
\* result is ordered by used_memory descending and e stays behind every
\* entry of equal used_memory that came before it.
RECURSIVE InsertPos(_, _, _)
InsertPos(s, e, k) ==
    IF k > Len(s) THEN k
    ELSE IF s[k].used_memory < e.used_memory THEN k
    ELSE InsertPos(s, e, k + 1)

InsertAt(s, k, e) == SubSeq(s, 1, k - 1) \o <<e>> \o SubSeq(s, k, Len(s))

\* sorted(processes, key=lambda x: x['used_memory'], reverse=True): Python's
\* sort is stable, also with reverse=True.
RECURSIVE SortedByMemory(_)
SortedByMemory(ps) ==
    IF ps = <<>> THEN <<>>
    ELSE LET front == SortedByMemory(SubSeq(ps, 1, Len(ps) - 1))
             last == ps[Len(ps)]
         IN InsertAt(front, InsertPos(front, last, 1), last)

\* Mutant of Take: the slice is missing, every process is displayed.
TakeAll(s, n) == s

Take(s, n) == SubSeq(s, 1, IF Len(s) < n THEN Len(s) ELSE n)

ProcTypeFull(t) == IF t = "G" THEN "Graphics" ELSE IF t = "C" THEN "Compute" ELSE "Unknown"

\* proc.get('name', 'N/A')[:50]: the name column holds the first 50
\* characters of the name.
NameColumn(name) ==
    SubSeq(name, 1, IF Len(name) < name_budget THEN Len(name) ELSE name_budget)

\* The entries of ps whose pid no earlier entry has.
RECURSIVE FirstOfEachPid(_)
FirstOfEachPid(ps) ==
    IF ps = <<>> THEN <<>>
    ELSE LET front == FirstOfEachPid(SubSeq(ps, 1, Len(ps) - 1))
             e == ps[Len(ps)]
         IN IF \E k \in 1..Len(front) : front[k].pid = e.pid
            THEN front ELSE Append(front, e)

\* Mutant of ProcessRows: a pid is shown once, under its first report.
ProcessRowsDeduplicated(processes) ==
    LET display_processes ==
            Take(SortedByMemory(FirstOfEachPid(processes)), display_budget)
    IN IF display_processes # <<>>
       THEN [k \in 1..Len(display_processes) |->
                [pid |-> display_processes[k].pid,
                 type |-> ProcTypeFull(display_processes[k].type),
                 name |-> NameColumn(display_processes[k].name),
                 used_memory |-> display_processes[k].used_memory,
                 placeholder |-> FALSE]]
       ELSE <<[pid |-> -1, type |-> "N/A", name |-> "No Processes",
               used_memory |-> 0, placeholder |-> TRUE]>>

\* The rows one process table shows for a device's processes.
ProcessRows(processes) ==
    LET display_processes == Take(SortedByMemory(processes), display_budget)
    IN IF display_processes # <<>>
       THEN [k \in 1..Len(display_processes) |->
                [pid |-> display_processes[k].pid,
                 type |-> ProcTypeFull(display_processes[k].type),
                 name |-> NameColumn(display_processes[k].name),
                 used_memory |-> display_processes[k].used_memory,
                 placeholder |-> FALSE]]
       ELSE <<[pid |-> -1, type |-> "N/A", name |-> "No Processes",
               used_memory |-> 0, placeholder |-> TRUE]>>

\* update_process_tables(stats): one tab per device was built at start-up,
\* so i >= self.process_tabs.count() never holds.  A widget call raising
\* (ProcessTablesFault) leaves the method before any row is written.
update_process_tables(stats, tables, F) ==
    IF ProcessTablesFault \in F
    THEN [raised |-> TRUE, tables |-> tables]
    ELSE [raised |-> FALSE,
          tables |-> [d \in DOMAIN tables |-> ProcessRows(stats[d + 1].processes)]]

\* ------------------------------------------- GPU_Monitor_App.check_alerts

\* Mutant of EvalMetric: the comparisons include the threshold itself.
EvalMetricInclusive(value, threshold, armed) ==
    IF value >= threshold /\ ~armed THEN [armed |-> TRUE, alert |-> TRUE]
    ELSE IF value < threshold THEN [armed |-> FALSE, alert |-> FALSE]
    ELSE [armed |-> armed, alert |-> FALSE]

\* Mutant of EvalMetric: the elif branch is missing, a flag once set stays
\* set.
EvalMetricLatched(value, threshold, armed) ==
    IF value > threshold /\ ~armed THEN [armed |-> TRUE, alert |-> TRUE]
    ELSE [armed |-> armed, alert |-> FALSE]

\* Mutant of EvalMetric: a value of 0 is taken as "no reading" and leaves
\* the flag as it is.
EvalMetricSkipsZero(value, threshold, armed) ==
    IF value = 0 THEN [armed |-> armed, alert |-> FALSE]
    ELSE IF value > threshold /\ ~armed THEN [armed |-> TRUE, alert |-> TRUE]
    ELSE IF value <= threshold THEN [armed |-> FALSE, alert |-> FALSE]
    ELSE [armed |-> armed, alert |-> FALSE]

\* One metric's if / elif on the single flag self.alert_states[metric].
EvalMetric(value, threshold, armed) ==
    IF value > threshold /\ ~armed THEN [armed |-> TRUE, alert |-> TRUE]
    ELSE IF value <= threshold THEN [armed |-> FALSE, alert |-> FALSE]
    ELSE [armed |-> armed, alert |-> FALSE]

AlertEvent(stat, m, th) ==
    [gpu_index |-> stat.gpu_index, metric |-> m,
     value |-> stat[m], threshold |-> th[m]]

\* The four metric blocks of one device, in source order: the flags after
\* them and alerts_triggered.
RECURSIVE EvalDevice(_, _, _, _, _)
EvalDevice(stat, th, states, k, acc) ==
    IF k > Len(MetricOrder) THEN [alert_states |-> states, alerts_triggered |-> acc]
    ELSE LET m == MetricOrder[k]
             r == EvalMetric(stat[m], th[m], states[m])
         IN EvalDevice(stat, th, [states EXCEPT ![m] = r.armed], k + 1,
                       IF r.alert THEN Append(acc, AlertEvent(stat, m, th)) ELSE acc)

\* play_sound_alert raises when it has a sound effect to use and a
\* QSoundEffect call raises; nothing in it or in check_alerts catches that.
PlaySoundRaises(sound_effect, F) == sound_effect /\ SoundFault \in F

\* "for alert in alerts_triggered": print, notify (its own try/except),
\* then the sound if sound alerts are on.  printed: events that reached the
\* print and the notification sink; notify_failed: how many notify calls
\* raised and were caught; raised: an exception left the loop.
RECURSIVE Deliver(_, _, _, _, _, _)
Deliver(alerts, k, sound_alert, sound_effect, F, acc) ==
    IF k > Len(alerts) THEN acc
    ELSE LET done == [acc EXCEPT !.printed = Append(@, alerts[k]),
                                 !.notify_failed =
                                     IF NotifyFault \in F THEN @ + 1 ELSE @]
         IN IF sound_alert /\ PlaySoundRaises(sound_effect, F)
            THEN [done EXCEPT !.raised = TRUE]
            ELSE Deliver(alerts, k + 1, sound_alert, sound_effect, F, done)

\* check_alerts(stats) from device i on (stats[i] is device i - 1).
\* checked: how many devices had their four metrics evaluated; triggered:
\* every event appended to an alerts_triggered list so far, in order.
RECURSIVE AlertsFrom(_, _, _, _, _, _, _)
AlertsFrom(stats, i, th, sound_alert, sound_effect, F, acc) ==
    IF i > Len(stats) \/ acc.raised THEN acc
    ELSE LET ev == EvalDevice(stats[i], th, acc.alert_states, 1, <<>>)
             dl == Deliver(ev.alerts_triggered, 1, sound_alert, sound_effect, F,
                           [printed |-> acc.printed,
                            notify_failed |-> acc.notify_failed,
                            raised |-> FALSE])
         IN AlertsFrom(stats, i + 1, th, sound_alert, sound_effect, F,
                       [alert_states |-> ev.alert_states,
                        checked |-> i,
                        triggered |-> acc.triggered \o ev.alerts_triggered,
                        printed |-> dl.printed,
                        notify_failed |-> dl.notify_failed,
                        raised |-> dl.raised])

check_alerts(stats, th, states, sound_alert, sound_effect, F) ==
    AlertsFrom(stats, 1, th, sound_alert, sound_effect, F,
               [alert_states |-> states, checked |-> 0, triggered |-> <<>>,
                printed |-> <<>>, notify_failed |-> 0, raised |-> FALSE])

\* -------------------------------- GPU_Monitor_App.update_dashboard_graphs

\* Mutant of DequeAppend: a plain list, nothing is ever dropped.
DequeAppendUnbounded(s, x) == Append(s, x)

\* deque(maxlen=self.buffer_size).append(x): a full deque drops its oldest
\* element.
DequeAppend(s, x) ==
    IF Len(s) < buffer_size THEN Append(s, x) ELSE Append(Tail(s), x)

EmptyBuffer ==
    [time |-> <<>>, temperature |-> <<>>, utilization |-> <<>>,
     memory_utilization |-> <<>>, power_draw |-> <<>>]

AppendSample(buffer, current_time, stat) ==
    [time |-> DequeAppend(buffer.time, current_time),
     temperature |-> DequeAppend(buffer.temperature, stat.temperature),
     utilization |-> DequeAppend(buffer.utilization, stat.utilization),
     memory_utilization |->
         DequeAppend(buffer.memory_utilization, stat.memory_utilization),
     power_draw |-> DequeAppend(buffer.power_draw, stat.power_draw)]

\* current_time = len(self.data_buffers[0]['time']), read once before the
\* loop.
CurrentTime(buffers) == Len(buffers[0].time)

\* The loop over enumerate(stats) from device i on; a curve's setData
\* raising at device d (GraphFault(d)) leaves the loop after d's appends.
RECURSIVE GraphsFrom(_, _, _, _, _)
GraphsFrom(stats, i, current_time, F, acc) ==
    IF i >= Len(stats) \/ acc.raised THEN acc
    ELSE GraphsFrom(stats, i + 1, current_time, F,
            [buffers |-> [acc.buffers EXCEPT
                            ![i] = AppendSample(@, current_time, stats[i + 1])],
             appended |-> i + 1,
             raised |-> GraphFault(i) \in F])

update_dashboard_graphs(stats, buffers, F) ==
    GraphsFrom(stats, 0, CurrentTime(buffers), F,
               [buffers |-> buffers, appended |-> 0, raised |-> FALSE])

\* ------------------------------------------- GPU_Monitor_App.update_stats

AllSteps == <<"sample", "stats_table", "process_tables", "alerts", "history">>

\* The four alerting values of a sample.
Plotted(stat) == [m \in Metrics |-> stat[m]]

EventKey(e) == <<e.gpu_index, e.metric>>

Keys(events) == [k \in 1..Len(events) |-> EventKey(events[k])]

\* What a tick did: the steps it entered, the step whose exception the
\* except clause caught ("none" when none raised), the sample list, what
\* check_alerts and update_dashboard_graphs got done.  current_time is -1
\* when update_dashboard_graphs was not entered.
Outcome(steps, error, stats, al, appended, current_time) ==
    [steps |-> steps, error |-> error, stats |-> stats,
     checked |-> al.checked, triggered |-> al.triggered,
     printed |-> al.printed, notify_failed |-> al.notify_failed,
     appended |-> appended, current_time |-> current_time]

\* check_alerts not entered.
NoAlerts(states) ==
    [alert_states |-> states, checked |-> 0, triggered |-> <<>>,
     printed |-> <<>>, notify_failed |-> 0, raised |-> FALSE]

\* Mutant of TimerAfter: a tick that raised stops the timer.
TimerStopsOnError(active, error) == active /\ error = "none"

\* The timer's state when the slot returns: update_stats never touches
\* self.timer, whether or not the tick raised.
TimerAfter(active, error) == active

\* Mutant of update_stats: update_dashboard_graphs is called before
\* check_alerts.
update_stats_history_first(n, th, sound_on, effect, states, buffers, tables, raw, F) ==
    LET s == get_nvidia_stats(n, raw, F)
        pt == update_process_tables(s.stats, tables, F)
        g == update_dashboard_graphs(s.stats, buffers, F)
        al == check_alerts(s.stats, th, states, sound_on, effect, F)
        order == <<"sample", "stats_table", "process_tables", "history", "alerts">>
    IN IF ~s.ok
       THEN [alert_states |-> states, data_buffers |-> buffers,
             process_tables |-> tables,
             tick |-> Outcome(SubSeq(order, 1, 1), "sample", <<>>,
                              NoAlerts(states), 0, -1)]
       ELSE IF StatsTableFault \in F
       THEN [alert_states |-> states, data_buffers |-> buffers,
             process_tables |-> tables,
             tick |-> Outcome(SubSeq(order, 1, 2), "stats_table", s.stats,
                              NoAlerts(states), 0, -1)]
       ELSE IF pt.raised
       THEN [alert_states |-> states, data_buffers |-> buffers,
             process_tables |-> tables,
             tick |-> Outcome(SubSeq(order, 1, 3), "process_tables", s.stats,
                              NoAlerts(states), 0, -1)]
       ELSE IF g.raised
       THEN [alert_states |-> states, data_buffers |-> g.buffers,
             process_tables |-> pt.tables,
             tick |-> Outcome(SubSeq(order, 1, 4), "history", s.stats,
                              NoAlerts(states), g.appended, CurrentTime(buffers))]
       ELSE [alert_states |-> al.alert_states, data_buffers |-> g.buffers,
             process_tables |-> pt.tables,
             tick |-> Outcome(order, IF al.raised THEN "alerts" ELSE "none",
                              s.stats, al, g.appended, CurrentTime(buffers))]

\* update_stats(): the try block in source order; the first call that
\* raises ends the tick in "except Exception", which prints and returns.
\* Gives the fields of self after the slot returns and what the tick did.
update_stats(n, th, sound_on, effect, states, buffers, tables, raw, F) ==
    LET s == get_nvidia_stats(n, raw, F)
        pt == update_process_tables(s.stats, tables, F)
        al == check_alerts(s.stats, th, states, sound_on, effect, F)
        g == update_dashboard_graphs(s.stats, buffers, F)
    IN IF ~s.ok
       THEN [alert_states |-> states, data_buffers |-> buffers,
             process_tables |-> tables,
             tick |-> Outcome(SubSeq(AllSteps, 1, 1), "sample", <<>>,
                              NoAlerts(states), 0, -1)]
       ELSE IF StatsTableFault \in F
       THEN [alert_states |-> states, data_buffers |-> buffers,
             process_tables |-> tables,
             tick |-> Outcome(SubSeq(AllSteps, 1, 2), "stats_table", s.stats,
                              NoAlerts(states), 0, -1)]
       ELSE IF pt.raised
       THEN [alert_states |-> states, data_buffers |-> buffers,
             process_tables |-> tables,
             tick |-> Outcome(SubSeq(AllSteps, 1, 3), "process_tables", s.stats,
                              NoAlerts(states), 0, -1)]
       ELSE IF al.raised
       THEN [alert_states |-> al.alert_states, data_buffers |-> buffers,
             process_tables |-> pt.tables,
             tick |-> Outcome(SubSeq(AllSteps, 1, 4), "alerts", s.stats,
                              al, 0, -1)]
       ELSE [alert_states |-> al.alert_states, data_buffers |-> g.buffers,
             process_tables |-> pt.tables,
             tick |-> Outcome(AllSteps, IF g.raised THEN "history" ELSE "none",
                              s.stats, al, g.appended, CurrentTime(buffers))]

\* ------------------------------------------------------------------ state

VARIABLES
    device_count,    \* self.device_count, fixed by nvmlDeviceGetCount at start
    thresholds,      \* self.thresholds
    sound_alert,     \* self.sound_alert
    sound_effect,    \* self.sound_effect is not None
    alert_states,    \* self.alert_states: one flag per metric
    data_buffers,    \* self.data_buffers: per device, five deques
    process_tables,  \* rows of the per-device process tables
    sound_file,      \* self.sound_file ("None" for None)
    timer_active,    \* self.timer.isActive()
    timeouts,        \* how often the timer has fired
    backend,         \* what the machine answers at start-up: nvidia-smi,
                     \* nvmlInit, nvmlDeviceGetCount
    phase,           \* "starting" (in __init__), "running" (event loop),
                     \* "exited"
    exit_status,     \* the exit status of the process, -1 while it runs
    reports,         \* start-up failures reported (message box, traceback)
    dialog,          \* the modal message box save_settings is showing
    save_log,        \* per save_settings call: its inputs, the
                     \* configuration it started from and ends with
    last,            \* the latest tick: its inputs, the state it started
                     \* from and what it did
    log              \* per tick run, a summary of what it did

vars ==
    <<device_count, thresholds, sound_alert, sound_effect, sound_file,
      alert_states, data_buffers, process_tables, timer_active, timeouts,
      backend, phase, exit_status, reports, dialog, save_log, last, log>>

\* The configuration a tick or a settings save finds.
Config ==
    [thresholds |-> thresholds, sound_alert |-> sound_alert,
     sound_file |-> sound_file, sound_effect |-> sound_effect]

\* A sound file that exists.
ExistingWav == "/sounds/alert.wav"

\* os.path.isfile(path)
IsFile(path) == path = ExistingWav

Devices == 0..(device_count - 1)

\* The backend's possible answers for one tick, each device reporting one
\* of the readings in R.
RawSamples(R) == [1..device_count -> R]

FaultAtoms ==
    {QueryFault(d, q) : d \in Devices, q \in Queries}
    \cup {HandleFault(d) : d \in Devices}
    \cup {GraphFault(d) : d \in Devices}
    \cup {StatsTableFault, ProcessTablesFault, NotifyFault, SoundFault}

\* The sets of at most k faults.
RECURSIVE FaultSets(_)
FaultSets(k) ==
    IF k = 0 THEN {{}}
    ELSE FaultSets(k - 1) \cup
         {F \cup {f} : F \in FaultSets(k - 1), f \in FaultAtoms}

\* The application once __init__ has returned on a machine with devices:
\* flags clear, empty deques, sound alerts either off or on with an
\* existing sound file (init_sound_effect), timer started, no settings
\* saved yet.
Init ==
    /\ device_count \in 1..MaxDevices
    /\ thresholds = DefaultThresholds
    /\ sound_alert \in BOOLEAN
    /\ sound_effect = sound_alert
    /\ sound_file = (IF sound_alert THEN ExistingWav ELSE "None")
    /\ alert_states = [m \in Metrics |-> FALSE]
    /\ data_buffers = [d \in Devices |-> EmptyBuffer]
    /\ process_tables = [d \in Devices |-> <<>>]
    /\ timer_active = TRUE
    /\ timeouts = 0
    /\ backend = [smi |-> "returncode 0", nvml_init |-> "ok",
                  enumeration |-> [ok |-> TRUE, count |-> device_count]]
    /\ phase = "running"
    /\ exit_status = -1
    /\ reports = 0
    /\ dialog = "none"
    /\ save_log = <<>>
    /\ last = <<>>
    /\ log = <<>>

\* What the log keeps of a tick.
Summary(t, F) ==
    [error |-> t.error,
     faults |-> Cardinality(F),
     values |-> [k \in 1..Len(t.stats) |-> Plotted(t.stats[k])],
     checked |-> t.checked,
     triggered |-> Keys(t.triggered),
     printed |-> Keys(t.printed),
     appended |-> t.appended,
     current_time |-> t.current_time]

\* The timer fires and Qt runs the connected slot update_stats to its end.
Timeout(raw, F) ==
    /\ phase = "running"
    /\ timer_active
    /\ LET r == update_stats(device_count, thresholds, sound_alert, sound_effect,
                             alert_states, data_buffers, process_tables, raw, F)
       IN /\ alert_states' = r.alert_states
          /\ data_buffers' = r.data_buffers
          /\ process_tables' = r.process_tables
          /\ timer_active' = TimerAfter(timer_active, r.tick.error)
          /\ last' = [raw |-> raw, faults |-> F, tick |-> r.tick,
                      config |-> Config,
                      pre |-> [alert_states |-> alert_states,
                               data_buffers |-> data_buffers,
                               process_tables |-> process_tables]]
          /\ log' = Append(log, Summary(r.tick, F))
    /\ timeouts' = timeouts + 1
    /\ UNCHANGED <<device_count, thresholds, sound_alert, sound_effect,
                   sound_file, backend, phase, exit_status, reports, dialog,
                   save_log>>

\* How many ticks of the log had a fault injected.
RECURSIVE FaultyTicks(_)
FaultyTicks(l) ==
    IF l = <<>> THEN 0
    ELSE FaultyTicks(SubSeq(l, 1, Len(l) - 1))
         + (IF l[Len(l)].faults > 0 THEN 1 ELSE 0)

\* Spec: up to MaxTicks timer periods; every device reports Cool, Hot or
\* ZeroMem; at most one fault in a tick and MaxFaultyTicks faulty ticks in
\* a run.
Tick ==
    /\ timeouts < MaxTicks
    /\ \E raw \in RawSamples({Cool, Hot, ZeroMem}),
          F \in FaultSets(IF FaultyTicks(log) < MaxFaultyTicks THEN 1 ELSE 0) :
            Timeout(raw, F)

Next == Tick

Spec == Init /\ [][Next]_vars

\* SpecSample: the first tick after start-up; every device reports Cool,
\* Hot or ZeroMem, with every set of at most MaxFaultsPerTick faults.
SampleTick ==
    /\ log = <<>>
    /\ \E raw \in RawSamples({Cool, Hot, ZeroMem}),
          F \in FaultSets(MaxFaultsPerTick) :
            Timeout(raw, F)

NextSample == SampleTick

SpecSample == Init /\ [][NextSample]_vars

\* SpecSingle: one device, up to MaxSingleTicks periods of Cool, Edge or
\* Hot readings; the stats table may raise (a tick that never reaches
\* check_alerts) and, with sound alerts on, the sound sink may raise.
InitSingle == Init /\ device_count = 1

SingleTick ==
    /\ timeouts < MaxSingleTicks
    /\ \E raw \in RawSamples({Cool, Edge, Hot}),
          F \in {{}, {StatsTableFault}}
                \cup (IF sound_alert THEN {{SoundFault}} ELSE {}) :
            Timeout(raw, F)

NextSingle == SingleTick

SpecSingle == InitSingle /\ [][NextSingle]_vars

Uniform(r) == [k \in 1..device_count |-> r]

\* One way for each step of a tick to raise, and the notification sink.
StepFaults ==
    {HandleFault(0), StatsTableFault, ProcessTablesFault, SoundFault,
     GraphFault(0), NotifyFault}

\* SpecFaulty: up to MaxTicks periods in which all devices report Hot or
\* all report ZeroMem, and any one step of the tick may raise.
FaultyTick ==
    /\ timeouts < MaxTicks
    /\ \E r \in {Hot, ZeroMem}, F \in {{}} \cup {{f} : f \in StepFaults} :
            Timeout(Uniform(r), F)

NextFaulty == FaultyTick

SpecFaulty == Init /\ [][NextFaulty]_vars

\* SpecLong: up to MaxLongTicks fault-free periods of a steady load: all
\* devices report the same reading, Cool or Hot, and the load changes at
\* most once in a run.
LoadChanged == \E k \in 1..Len(log) : log[k].values # log[1].values

LongTick ==
    /\ timeouts < MaxLongTicks
    /\ \E r \in {Cool, Hot} :
        /\ IF log = <<>> \/ ~LoadChanged THEN TRUE ELSE Uniform(r) = last.raw
        /\ Timeout(Uniform(r), {})

NextLong == LongTick

SpecLong == Init /\ [][NextLong]_vars

\* What nvmlDeviceGetComputeRunningProcesses / GraphicsRunningProcesses may
\* report of four processes: two of them use the same amount of memory.
ProcessReports ==
    {[pid |-> 7, usedGpuMemory |-> 5 * MiB],
     [pid |-> 9, usedGpuMemory |-> 20 * MiB],
     [pid |-> 11, usedGpuMemory |-> 5 * MiB],
     [pid |-> 13, usedGpuMemory |-> 1 * MiB]}

\* Every list that reports some of the processes of S once each, in any
\* order.
RECURSIVE Orderings(_)
Orderings(S) ==
    {<<>>} \cup UNION {{<<p>> \o rest : rest \in Orderings(S \ {p})} : p \in S}

\* The reports of one more group of processes like those of list, under
\* other pids.
Shifted(list, j) ==
    [k \in 1..Len(list) |-> [list[k] EXCEPT !.pid = @ + 100 * j]]

\* blocks groups of processes like those of list.
RECURSIVE Repeated(_, _)
Repeated(list, blocks) ==
    IF blocks = 0 THEN <<>>
    ELSE Repeated(list, blocks - 1) \o Shifted(list, blocks - 1)

\* The graphics lists of SpecProcs: none, process 7 with a graphics context
\* of its own size, processes 9 and 7.
GraphicsLists ==
    {<<>>,
     <<[pid |-> 7, usedGpuMemory |-> 1 * MiB]>>,
     <<[pid |-> 9, usedGpuMemory |-> 20 * MiB],
       [pid |-> 7, usedGpuMemory |-> 5 * MiB]>>}

\* A cool device with the given process lists.
Busy(compute_procs, graphics_procs) ==
    [Cool EXCEPT !.compute_procs = compute_procs,
                 !.graphics_procs = graphics_procs]

\* SpecProcs: in the first period every device reports up to MaxBlocks
\* groups of up to four compute processes and one of the graphics lists;
\* in the later periods (up to MaxTicks) the processes are gone (Cool) or
\* those of Hot, and a process query or the process tables may raise.
ProcsTick ==
    \/ /\ log = <<>>
       /\ \E list \in Orderings(ProcessReports), blocks \in 1..MaxBlocks,
             graphics \in GraphicsLists :
                Timeout(Uniform(Busy(Repeated(list, blocks), graphics)), {})
    \/ /\ log # <<>>
       /\ timeouts < MaxTicks
       /\ \E r \in {Cool, Hot},
             F \in {{}, {QueryFault(0, "compute_procs")}, {ProcessTablesFault}} :
                Timeout(Uniform(r), F)

NextProcs == ProcsTick

SpecProcs == Init /\ [][NextProcs]_vars

\* The devices whose queries fail under SpecDegraded: the first and the
\* last.
EndDevices == {0, device_count - 1}

\* SpecDegraded: up to MaxTicks periods; the last device reports Cool or
\* Hot and so do, all alike, the devices before it.  In up to
\* MaxFaultyTicks of the periods one thing goes wrong: the temperature
\* query or the handle lookup of the first or the last device, the power
\* query of the first, or (with sound alerts on) the sound sink.
DegradedTick ==
    /\ timeouts < MaxTicks
    /\ \E others \in {Cool, Hot}, final \in {Cool, Hot},
          F \in {{}} \cup
                (IF FaultyTicks(log) < MaxFaultyTicks
                 THEN {{QueryFault(d, "temperature")} : d \in EndDevices}
                      \cup {{HandleFault(d)} : d \in EndDevices}
                      \cup {{QueryFault(0, "power")}}
                      \cup (IF sound_alert THEN {{SoundFault}} ELSE {})
                 ELSE {}) :
            Timeout([k \in 1..device_count |->
                        IF k < device_count THEN others ELSE final], F)

NextDegraded == DegradedTick

SpecDegraded == Init /\ [][NextDegraded]_vars

\* ----------------------------------------- GPU_Monitor_App.save_settings

\* What the user may have typed into a threshold field.
ThresholdTexts == {"60", "85.0", "abc", ""}

\* float(text): the value, or ValueError.
ParseFloat(text) ==
    CASE text = "60" -> [ok |-> TRUE, value |-> 60]
      [] text = "85.0" -> [ok |-> TRUE, value |-> 85]
      [] OTHER -> [ok |-> FALSE, value |-> 0]

\* A sound file path that names no file.
MissingWav == "/sounds/missing.wav"

\* The settings tab when "Save Settings" is clicked: the texts of the four
\* threshold fields, the sound checkbox, the text of the sound file field.
\* All fields read "85.0" but for one the user edited.
SettingsForms ==
    {[texts |-> [m \in Metrics |-> IF m = edited THEN text ELSE "85.0"],
      sound |-> sound, sound_file |-> path] :
        edited \in Metrics, text \in ThresholdTexts,
        sound \in BOOLEAN, path \in {"", ExistingWav, MissingWav}}

\* save_settings() from the configuration c, with beep.wav next to the
\* source or not: the message boxes it shows, in order, each with the
\* configuration self holds while the box is open.  QMessageBox.warning
\* and QMessageBox.information return when the user closes the box; when
\* the last one is closed save_settings returns.
save_settings(c, form, beep) ==
    IF \E m \in Metrics : ~ParseFloat(form.texts[m]).ok
    THEN <<[config |-> c, dialog |-> "Invalid Input"]>>
    ELSE LET assigned ==
                 [thresholds |-> [m \in Metrics |-> ParseFloat(form.texts[m]).value],
                  sound_alert |-> form.sound,
                  sound_file |-> IF form.sound THEN form.sound_file ELSE "None",
                  sound_effect |-> c.sound_effect]
         IN IF ~assigned.sound_alert
            THEN <<[config |-> [assigned EXCEPT !.sound_effect = FALSE],
                    dialog |-> "Settings Saved"]>>
            ELSE IF (assigned.sound_file # "" /\ IsFile(assigned.sound_file)) \/ beep
            THEN <<[config |-> [assigned EXCEPT !.sound_effect = TRUE],
                    dialog |-> "Settings Saved"]>>
            ELSE <<[config |-> assigned, dialog |-> "Sound File Missing"],
                   [config |-> [assigned EXCEPT !.sound_alert = FALSE,
                                                !.sound_effect = FALSE],
                    dialog |-> "Settings Saved"]>>

\* self takes the configuration of a stage of save_settings and the stage's
\* message box opens.
Enter(stage) ==
    /\ thresholds' = stage.config.thresholds
    /\ sound_alert' = stage.config.sound_alert
    /\ sound_file' = stage.config.sound_file
    /\ sound_effect' = stage.config.sound_effect
    /\ dialog' = stage.dialog

\* The user clicks "Save Settings" (no message box is open: they are
\* modal): save_settings runs up to its first message box.
SaveSettings(form, beep) ==
    /\ phase = "running"
    /\ dialog = "none"
    /\ LET stages == save_settings(Config, form, beep)
       IN /\ Enter(stages[1])
          /\ save_log' = Append(save_log,
                                [form |-> form, beep |-> beep, pre |-> Config,
                                 stages |-> stages, shown |-> 1])
    /\ UNCHANGED <<device_count, alert_states, data_buffers, process_tables,
                   timer_active, timeouts, backend, phase, exit_status,
                   reports, last, log>>

\* The user closes the open message box: save_settings runs on to its next
\* message box or returns.
CloseDialog ==
    /\ phase = "running"
    /\ dialog \notin {"none", "Quit"}
    /\ LET call == save_log[Len(save_log)]
       IN IF call.shown < Len(call.stages)
          THEN /\ Enter(call.stages[call.shown + 1])
               /\ save_log' = [save_log EXCEPT ![Len(save_log)].shown = @ + 1]
          ELSE /\ dialog' = "none"
               /\ UNCHANGED <<thresholds, sound_alert, sound_file,
                              sound_effect, save_log>>
    /\ UNCHANGED <<device_count, alert_states, data_buffers, process_tables,
                   timer_active, timeouts, backend, phase, exit_status,
                   reports, last, log>>

\* closeEvent(event): the user closes the window (no message box is open)
\* and the 'Quit' question box opens.
CloseEvent ==
    /\ phase = "running"
    /\ dialog = "none"
    /\ dialog' = "Quit"
    /\ UNCHANGED <<device_count, thresholds, sound_alert, sound_effect,
                   sound_file, alert_states, data_buffers, process_tables,
                   timer_active, timeouts, backend, phase, exit_status,
                   reports, save_log, last, log>>

\* The user answers the 'Quit' box.  Yes: nvmlShutdown (whatever it raises
\* is dropped), event.accept(), the last window closes, app.exec_()
\* returns 0 and main ends the process with sys.exit(0).  No:
\* event.ignore(), the application goes on.
AnswerQuit ==
    /\ phase = "running"
    /\ dialog = "Quit"
    /\ dialog' = "none"
    /\ \E reply \in {"Yes", "No"} :
          IF reply = "Yes"
          THEN /\ phase' = "exited"
               /\ exit_status' = 0
               /\ timer_active' = FALSE
          ELSE UNCHANGED <<phase, exit_status, timer_active>>
    /\ UNCHANGED <<device_count, thresholds, sound_alert, sound_effect,
                   sound_file, alert_states, data_buffers, process_tables,
                   timeouts, backend, reports, save_log, last, log>>

\* SpecSettings: up to MaxSaves clicks on "Save Settings" and up to
\* MaxTicks timer periods, in any interleaving: the timer also fires while
\* a message box is open, whose exec() runs the event loop.  All devices
\* report Cool or all report Hot.  The user may close the window at any
\* time no message box is open.
SettingsSave ==
    /\ Len(save_log) < MaxSaves
    /\ \E form \in SettingsForms, beep \in BOOLEAN : SaveSettings(form, beep)

SettingsTick ==
    /\ timeouts < MaxTicks
    /\ \E r \in {Cool, Hot} : Timeout(Uniform(r), {})

NextSettings ==
    SettingsSave \/ CloseDialog \/ SettingsTick \/ CloseEvent \/ AnswerQuit

SpecSettings == Init /\ [][NextSettings]_vars

\* ------------------------------------------------ GPU_Monitor_App.__init__

\* detect_gpu(): 'NVIDIA' when nvidia-smi runs and returns 0, 'Unknown'
\* when it returns something else or is not found.
detect_gpu(smi) == IF smi = "returncode 0" THEN "NVIDIA" ELSE "Unknown"

\* init_sound_effect(): with sound alerts on, a sound effect from the sound
\* file or else from beep.wav; with neither, a warning and sound alerts
\* off.
init_sound_effect(sound, file, beep) ==
    IF sound /\ ((file \notin {"None", ""} /\ IsFile(file)) \/ beep)
    THEN [sound_alert |-> TRUE, sound_effect |-> TRUE]
    ELSE [sound_alert |-> FALSE, sound_effect |-> FALSE]

\* The process ends in __init__: sys.exit(1) after a critical message box,
\* or the NVMLError of nvmlDeviceGetCount leaves main uncaught (traceback,
\* status 1).  No timer exists yet.
StartupFailed(args) ==
    [phase |-> "exited", exit_status |-> 1, reports |-> 1, device_count |-> 0,
     sound_alert |-> args.sound, sound_effect |-> FALSE, timer_active |-> FALSE]

\* Mutant of GPU_Monitor_App: the result of detect_gpu is not looked at.
GPU_Monitor_App_undetected(args, b, beep) ==
    IF b.nvml_init # "ok" \/ ~b.enumeration.ok THEN StartupFailed(args)
    ELSE [phase |-> "running", exit_status |-> -1, reports |-> 0,
          device_count |-> b.enumeration.count,
          sound_alert |-> init_sound_effect(args.sound, args.sound_file, beep).sound_alert,
          sound_effect |-> init_sound_effect(args.sound, args.sound_file, beep).sound_effect,
          timer_active |-> TRUE]

\* GPU_Monitor_App(thresholds, sound_alert, sound_file) called by main on
\* the backend b: the fields of self and the state of the process when
\* __init__ is left.
GPU_Monitor_App(args, b, beep) ==
    IF detect_gpu(b.smi) # "NVIDIA" THEN StartupFailed(args)
    ELSE IF b.nvml_init # "ok" THEN StartupFailed(args)
    ELSE IF ~b.enumeration.ok THEN StartupFailed(args)
    ELSE [phase |-> "running", exit_status |-> -1, reports |-> 0,
          device_count |-> b.enumeration.count,
          sound_alert |-> init_sound_effect(args.sound, args.sound_file, beep).sound_alert,
          sound_effect |-> init_sound_effect(args.sound, args.sound_file, beep).sound_effect,
          timer_active |-> TRUE]

\* The machines the application may be started on: nvidia-smi returning
\* 0, returning an error or missing; nvmlInit succeeding or raising
\* NVMLError; nvmlDeviceGetCount giving 1..MaxDevices or raising NVMLError.
Backends ==
    [smi : {"returncode 0", "returncode 9", "FileNotFoundError"},
     nvml_init : {"ok", "NVMLError"},
     enumeration : {[ok |-> TRUE, count |-> n] : n \in 1..MaxDevices}
                   \cup {[ok |-> FALSE, count |-> 0]}]

\* --sound and --sound-file as main hands them over: sound_file is None
\* without --sound.
Arguments ==
    {[sound |-> FALSE, sound_file |-> "None"]}
    \cup {[sound |-> TRUE, sound_file |-> f] : f \in {"None", ExistingWav, MissingWav}}

\* main() before the constructor runs: nothing of self exists.
InitStartup ==
    /\ backend \in Backends
    /\ phase = "starting"
    /\ device_count = 0
    /\ thresholds = DefaultThresholds
    /\ sound_alert = FALSE
    /\ sound_effect = FALSE
    /\ sound_file = "None"
    /\ alert_states = [m \in Metrics |-> FALSE]
    /\ data_buffers = <<>>
    /\ process_tables = <<>>
    /\ timer_active = FALSE
    /\ timeouts = 0
    /\ exit_status = -1
    /\ reports = 0
    /\ dialog = "none"
    /\ save_log = <<>>
    /\ last = <<>>
    /\ log = <<>>

\* main() constructs the window.
Construct ==
    /\ phase = "starting"
    /\ \E args \in Arguments, beep \in BOOLEAN :
          LET self == GPU_Monitor_App(args, backend, beep)
          IN /\ phase' = self.phase
             /\ exit_status' = self.exit_status
             /\ reports' = self.reports
             /\ device_count' = self.device_count
             /\ sound_alert' = self.sound_alert
             /\ sound_effect' = self.sound_effect
             /\ sound_file' = args.sound_file
             /\ timer_active' = self.timer_active
             /\ data_buffers' = [d \in 0..(self.device_count - 1) |-> EmptyBuffer]
             /\ process_tables' = [d \in 0..(self.device_count - 1) |-> <<>>]
    /\ UNCHANGED <<thresholds, alert_states, timeouts, backend, dialog,
                   save_log, last, log>>

\* SpecStartup: the application is started on any of the Backends and,
\* once running, goes through up to MaxTicks timer periods in which all
\* devices report Cool or all report Hot, until the user closes the
\* window.
StartupTick ==
    /\ timeouts < MaxTicks
    /\ \E r \in {Cool, Hot} : Timeout(Uniform(r), {})

NextStartup == Construct \/ StartupTick \/ CloseEvent \/ AnswerQuit

SpecStartup == InitStartup /\ [][NextStartup]_vars

\* ============================================================ properties

Range(q) == {q[k] : k \in 1..Len(q)}

Max(S) == CHOOSE x \in S : \A y \in S : y <= x

\* Tick k of the log produced a sample for device d.
Sampled(k, d) == Len(log[k].values) > d

\* check_alerts of tick k evaluated device d's four metrics.
Evaluated(k, d) == log[k].checked > d

\* Device d's value of metric m in the sample of tick k.
ValueAt(k, d, m) == log[k].values[d + 1][m]

\* The alert engine raised an event for (d, m) in tick k.
Alerted(k, d, m) == <<d, m>> \in Range(log[k].triggered)

\* The ticks before k whose check_alerts evaluated device d.
EarlierEvaluations(k, d) == {j \in 1..(k - 1) : Evaluated(j, d)}

\* Device d's value of m exceeds the threshold at tick k, and it did not at
\* d's previous evaluation, or there is none.
FreshBreach(k, d, m) ==
    /\ ValueAt(k, d, m) > thresholds[m]
    /\ \/ EarlierEvaluations(k, d) = {}
       \/ ValueAt(Max(EarlierEvaluations(k, d)), d, m) <= thresholds[m]

\* C1 (as claimed): two alert events for the same device and metric are
\* never raised without a tick in between at which that device's value for
\* the metric was at or below the threshold.
C1_OneAlertPerSustainedBreach ==
    \A d \in Devices, m \in Metrics :
        \A i \in 1..Len(log), j \in 1..Len(log) :
            (i < j /\ Alerted(i, d, m) /\ Alerted(j, d, m)) =>
                \E k \in (i + 1)..(j - 1) :
                    Sampled(k, d) /\ ValueAt(k, d, m) <= thresholds[m]

\* C2 (as claimed): alert state is per (device, metric): in every tick that
\* evaluates device d, an event for (d, m) is raised exactly when d's value
\* exceeds the threshold and d's previous observed value did not, or this
\* is d's first sample.
C2_AlertPerDeviceAndMetric ==
    \A k \in 1..Len(log) : \A d \in Devices, m \in Metrics :
        Evaluated(k, d) => (Alerted(k, d, m) <=> FreshBreach(k, d, m))

\* C3: with a single device, at every evaluation and for each metric the
\* alert engine raises an event exactly when the value exceeds the
\* threshold and the previously evaluated value did not (or there is none);
\* a value equal to the threshold never alerts and clears the flag.  The
\* temperature event, first in alerts_triggered, also always reaches the
\* print and the notification sink.
C3_SingleDeviceHysteresis ==
    device_count = 1 =>
        \A k \in 1..Len(log) :
            Evaluated(k, 0) =>
                /\ \A m \in Metrics : Alerted(k, 0, m) <=> FreshBreach(k, 0, m)
                /\ <<0, "temperature">> \in Range(log[k].printed)
                       <=> FreshBreach(k, 0, "temperature")
                /\ (k = Len(log)) =>
                       \A m \in Metrics :
                           alert_states[m] <=> (ValueAt(k, 0, m) > thresholds[m])

\* C3 witness: temperatures 70, 85, 85, 70, 85 against threshold 80 were
\* fed one per tick and events were raised at positions 2 and 5 only.
C3_Witness ==
    /\ device_count = 1
    /\ Len(log) = 5
    /\ \A k \in 1..5 : Evaluated(k, 0)
    /\ [k \in 1..5 |-> ValueAt(k, 0, "temperature")] = <<70, 85, 85, 70, 85>>
    /\ {k \in 1..5 : Alerted(k, 0, "temperature")} = {2, 5}

\* update_stats run again from the state the latest tick started in, on
\* the same backend answers, with the faults F.
Rerun(F) ==
    update_stats(device_count, thresholds, sound_alert, sound_effect,
                 last.pre.alert_states, last.pre.data_buffers,
                 last.pre.process_tables, last.raw, F)

SinkFaults == {NotifyFault, SoundFault}

\* C4 (as claimed): a sink that raises while an alert is delivered changes
\* nothing: the tick ends as it would have with working sinks, with the
\* same events delivered, the same alert_states and the same history
\* append.
C4_SinkFailureContained ==
    (log # <<>> /\ last.faults \cap SinkFaults # {}) =>
        LET cf == Rerun(last.faults \ SinkFaults)
        IN /\ last.tick.printed = cf.tick.printed
           /\ last.tick.checked = cf.tick.checked
           /\ last.tick.appended = cf.tick.appended
           /\ last.tick.error = cf.tick.error
           /\ alert_states = cf.alert_states
           /\ data_buffers = cf.data_buffers

\* A sample with the fields of query q at their sentinel.
WithSentinel(stat, q) ==
    CASE q = "name" -> [stat EXCEPT !.name = "Unknown"]
      [] q = "memory" -> [stat EXCEPT !.memory_total = 0, !.memory_used = 0,
                                      !.memory_utilization = 0]
      [] q = "utilization" -> [stat EXCEPT !.utilization = 0,
                                           !.memory_utilization_rate = 0]
      [] q = "temperature" -> [stat EXCEPT !.temperature = 0]
      [] q = "power" -> [stat EXCEPT !.power_draw = 0, !.power_limit = 0]
      [] q = "fan" -> [stat EXCEPT !.fan_speed = 0]
      [] q = "clock" -> [stat EXCEPT !.clock_speed = 0]
      [] q = "compute_procs" ->
            [stat EXCEPT !.processes = SelectSeq(@, LAMBDA e : e.type # "C")]
      [] q = "graphics_procs" ->
            [stat EXCEPT !.processes = SelectSeq(@, LAMBDA e : e.type # "G")]

\* C5: for every query that failed in the latest tick, if the sample list
\* would have been produced had that query succeeded, it is produced now
\* too, with one sample per device in index order, and differs from that
\* list only in the failed query's fields of that device, which are at
\* their sentinel.
C5_QueryFailureIsolated ==
    log # <<>> =>
        \A f \in last.faults :
            f.kind = "query" =>
                LET cf == get_nvidia_stats(device_count, last.raw, last.faults \ {f})
                    got == last.tick.stats
                IN cf.ok =>
                    /\ last.tick.error # "sample"
                    /\ Len(got) = device_count
                    /\ \A k \in 1..Len(got) : got[k].gpu_index = k - 1
                    /\ got = [cf.stats EXCEPT ![f.dev + 1] = WithSentinel(@, f.query)]

\* C5 witness: of two hot devices, device 0's temperature query failed; its
\* temperature is 0, its utilization and device 1's sample are intact.
C5_Witness ==
    /\ log # <<>>
    /\ device_count = 2
    /\ last.raw = <<Hot, Hot>>
    /\ last.faults = {QueryFault(0, "temperature")}
    /\ Len(last.tick.stats) = 2
    /\ last.tick.stats[1].temperature = 0
    /\ last.tick.stats[1].utilization = 95
    /\ last.tick.stats[2].temperature = 85

\* C6 (as claimed): with the handles obtained, a device whose memory query
\* succeeds with total = 0 gets memory_utilization 0 in a complete sample
\* list; one with total > 0 gets used / total * 100.
C6_ZeroTotalMemory ==
    (log # <<>> /\ \A d \in Devices : HandleFault(d) \notin last.faults) =>
        \A d \in Devices :
            ~Fails(last.faults, d, "memory") =>
                IF last.raw[d + 1].mem_total = 0
                THEN /\ last.tick.error # "sample"
                     /\ Len(last.tick.stats) = device_count
                     /\ last.tick.stats[d + 1].memory_utilization = 0
                ELSE last.tick.error # "sample" =>
                        last.tick.stats[d + 1].memory_utilization * last.raw[d + 1].mem_total
                            = last.raw[d + 1].mem_used * 100

IsPrefix(a, b) == Len(a) <= Len(b) /\ a = SubSeq(b, 1, Len(a))

Index(q, x) == CHOOSE k \in 1..Len(q) : q[k] = x

\* The order section 4.5 of the specification gives.
ClaimedSteps == <<"sample", "history", "process_tables", "alerts", "stats_table">>

\* C7 (as claimed): a tick samples, then updates the history, then ranks
\* the processes, then evaluates the alerts, then hands over to the
\* presentation; the history append precedes the alert evaluation.
C7_HistoryBeforeAlerts ==
    log # <<>> =>
        /\ IsPrefix(last.tick.steps, ClaimedSteps)
        /\ "alerts" \in Range(last.tick.steps) =>
              /\ "history" \in Range(last.tick.steps)
              /\ Index(last.tick.steps, "history") < Index(last.tick.steps, "alerts")

\* The order of the calls in update_stats.
ActualSteps == <<"sample", "stats_table", "process_tables", "alerts", "history">>

\* C7 (amended): a tick samples, then fills the stats table, then ranks the
\* processes into the process tables, then evaluates the alerts, and last
\* appends to the history; so nothing is appended in a tick unless its
\* alert evaluation went through every device without raising.
C7_TickOrder ==
    log # <<>> =>
        /\ IsPrefix(last.tick.steps, ActualSteps)
        /\ last.tick.error = "none" => last.tick.steps = ActualSteps
        /\ last.tick.appended > 0 =>
              /\ last.tick.checked = device_count
              /\ "alerts" \in Range(last.tick.steps)
              /\ Index(last.tick.steps, "alerts") < Index(last.tick.steps, "history")
        /\ last.tick.error = "alerts" => data_buffers = last.pre.data_buffers

\* C7 witness: a tick ran all five steps, raised alert events and appended
\* every device's values.
C7_Witness ==
    /\ log # <<>>
    /\ last.tick.steps = AllSteps
    /\ last.tick.error = "none"
    /\ last.tick.triggered # <<>>
    /\ last.tick.appended = device_count

\* The backend and the widgets are healthy in the latest tick: no fault,
\* and every device reports a memory total above 0.
Healthy ==
    /\ last.faults = {}
    /\ \A d \in Devices : last.raw[d + 1].mem_total > 0

\* C8: whatever raised in earlier ticks, the timer is still active, one
\* update_stats ran per timer period, and a tick on a healthy backend runs
\* all its steps for every device.
C8_SchedulerSurvivesFailedTicks ==
    /\ timer_active
    /\ Len(log) = timeouts
    /\ (log # <<>> /\ Healthy) =>
          /\ last.tick.error = "none"
          /\ last.tick.steps = AllSteps
          /\ last.tick.checked = device_count
          /\ last.tick.appended = device_count

\* C8 witness: two ticks raised (one while sampling) and the third, on a
\* healthy backend, ran in full at the third period.
C8_Witness ==
    /\ timeouts = 3
    /\ Len(log) = 3
    /\ log[1].error = "sample"
    /\ log[2].error \notin {"none", "sample"}
    /\ Healthy
    /\ log[3].error = "none"
    /\ log[3].appended = device_count

\* Everything update_dashboard_graphs ever appended to device d's series m,
\* oldest first.
RECURSIVE AppendedTo(_, _, _)
AppendedTo(l, d, m) ==
    IF l = <<>> THEN <<>>
    ELSE LET front == AppendedTo(SubSeq(l, 1, Len(l) - 1), d, m)
             e == l[Len(l)]
         IN IF e.appended > d THEN Append(front, e.values[d + 1][m]) ELSE front

LastN(q, n) == IF Len(q) <= n THEN q ELSE SubSeq(q, Len(q) - n + 1, Len(q))

\* C9: every series of the four plotted metrics holds exactly the last
\* min(n, 60) of the n values appended to it, in order; so it is never
\* longer than 60.
C9_SeriesKeepsLast60 ==
    \A d \in Devices, m \in Metrics :
        /\ data_buffers[d][m] = LastN(AppendedTo(log, d, m), buffer_size)
        /\ Len(data_buffers[d][m]) <= buffer_size

\* C9 witness: more than 60 values were appended to a series, of which the
\* oldest retained is a cool one and the newest a hot one.
C9_Witness ==
    /\ Len(AppendedTo(log, 0, "temperature")) > buffer_size
    /\ Len(data_buffers[0].temperature) = buffer_size
    /\ data_buffers[0].temperature[1] = 70
    /\ data_buffers[0].temperature[buffer_size] = 85

\* C10 (as claimed): the timestamps of every device's time buffer are
\* strictly increasing along the buffer.
C10_TimestampsStrictlyIncrease ==
    \A d \in Devices :
        \A k \in 1..(Len(data_buffers[d].time) - 1) :
            data_buffers[d].time[k] < data_buffers[d].time[k + 1]

\* The latest tick went through update_process_tables.
TablesFilled ==
    /\ log # <<>>
    /\ "process_tables" \in Range(last.tick.steps)
    /\ last.tick.error # "process_tables"

\* The process entries of device d in the sample list of the latest tick.
Entries(d) == last.tick.stats[d + 1].processes

\* The place of entry i of ps in the ranking: behind every entry of larger
\* used_memory and behind the earlier entries of equal used_memory.
RankOf(ps, i) ==
    Cardinality({j \in 1..Len(ps) : ps[j].used_memory > ps[i].used_memory})
    + Cardinality({j \in 1..(i - 1) : ps[j].used_memory = ps[i].used_memory})
    + 1

Min(a, b) == IF a < b THEN a ELSE b

\* Row k of a process table shows the entry e.
Shows(row, e) ==
    /\ ~row.placeholder
    /\ row.pid = e.pid
    /\ row.used_memory = e.used_memory
    /\ Len(row.name) = Min(Len(e.name), name_budget)
    /\ row.name = SubSeq(e.name, 1, Len(row.name))
    /\ row.type = (IF e.type = "C" THEN "Compute" ELSE "Graphics")

\* C11: after update_process_tables, the table of a device with process
\* entries shows them ordered by used_memory descending, entries of equal
\* used_memory in discovery order, cut after the first 20: the entry whose
\* place in that ranking is r <= 20 is in row r, and there are no other
\* rows.
C11_RankedByMemoryStable ==
    TablesFilled =>
        \A d \in Devices :
            Entries(d) # <<>> =>
                /\ Len(process_tables[d]) = Min(Len(Entries(d)), display_budget)
                /\ \A i \in 1..Len(Entries(d)) :
                      RankOf(Entries(d), i) <= display_budget =>
                          Shows(process_tables[d][RankOf(Entries(d), i)],
                                Entries(d)[i])

\* C11 witness: six groups of compute processes using 5, 20, 5, 1 MiB (24
\* entries) gave 20 rows: the six of 20 MiB, the twelve of 5 MiB in
\* discovery order, two of 1 MiB.
C11_Witness ==
    /\ TablesFilled
    /\ Len(Entries(0)) = 24
    /\ [k \in 1..4 |-> Entries(0)[k].used_memory] = <<5, 20, 5, 1>>
    /\ Len(process_tables[0]) = 20
    /\ [k \in 1..20 |-> process_tables[0][k].used_memory]
          = [k \in 1..20 |-> IF k <= 6 THEN 20 ELSE IF k <= 18 THEN 5 ELSE 1]
    /\ [k \in 7..10 |-> process_tables[0][k].pid]
          = [k \in 7..10 |-> Entries(0)[<<1, 3, 5, 7>>[k - 6]].pid]

\* C12: after update_process_tables, every device's table has between 1
\* and 20 rows: exactly one placeholder row when the device has no process
\* entries, and min(k, 20) rows, none of them a placeholder, when it has k.
C12_OneToTwentyRows ==
    TablesFilled =>
        \A d \in Devices :
            /\ Len(process_tables[d]) \in 1..display_budget
            /\ IF Entries(d) = <<>>
               THEN /\ Len(process_tables[d]) = 1
                    /\ process_tables[d][1].placeholder
                    /\ process_tables[d][1].name = "No Processes"
               ELSE /\ Len(process_tables[d]) = Min(Len(Entries(d)), display_budget)
                    /\ \A k \in 1..Len(process_tables[d]) :
                          ~process_tables[d][k].placeholder

\* C12 witness: a table that showed 20 of 24 processes shows the one
\* placeholder row after a tick without processes.
C12_Witness ==
    /\ TablesFilled
    /\ Entries(0) = <<>>
    /\ Len(last.pre.process_tables[0]) = display_budget
    /\ ~last.pre.process_tables[0][1].placeholder
    /\ Len(process_tables[0]) = 1
    /\ process_tables[0][1].placeholder

\* The reports of device d's compute and graphics lists the latest tick
\* got (none from a query that failed).
ComputeReports(d) ==
    IF Fails(last.faults, d, "compute_procs") THEN <<>>
    ELSE last.raw[d + 1].compute_procs

GraphicsReports(d) ==
    IF Fails(last.faults, d, "graphics_procs") THEN <<>>
    ELSE last.raw[d + 1].graphics_procs

\* Entry e comes from the report p of the list of the given type.
FromReport(e, p, type) ==
    /\ e.pid = p.pid
    /\ e.type = type
    /\ e.used_memory * MiB = p.usedGpuMemory

\* C13: the process collection of a device holds one entry per report of
\* the compute list followed by one per report of the graphics list, each
\* with its own pid, kind and used_memory, whether or not the pid is also
\* in the other list; and every entry of a collection of at most 20 has a
\* row of its own in the device's process table.
C13_NoDeduplicationByPid ==
    (log # <<>> /\ last.tick.error # "sample") =>
        \A d \in Devices :
            LET cs == ComputeReports(d)
                gs == GraphicsReports(d)
            IN /\ Len(Entries(d)) = Len(cs) + Len(gs)
               /\ \A k \in 1..Len(cs) : FromReport(Entries(d)[k], cs[k], "C")
               /\ \A k \in 1..Len(gs) :
                     FromReport(Entries(d)[Len(cs) + k], gs[k], "G")
               /\ (TablesFilled /\ Len(Entries(d)) \in 1..display_budget) =>
                     /\ Len(process_tables[d]) = Len(Entries(d))
                     /\ \A i \in 1..Len(Entries(d)) :
                           \E k \in 1..Len(process_tables[d]) :
                               Shows(process_tables[d][k], Entries(d)[i])

\* C13 witness: process 7 is in the compute list with 5 MiB and in the
\* graphics list with 1 MiB; the collection has a Compute entry of 5 MiB
\* and a Graphics entry of 1 MiB for it, and the table a row for each.
C13_Witness ==
    /\ TablesFilled
    /\ \E i, j \in 1..Len(Entries(0)) :
          /\ Entries(0)[i].pid = 7 /\ Entries(0)[i].type = "C"
          /\ Entries(0)[i].used_memory = 5
          /\ Entries(0)[j].pid = 7 /\ Entries(0)[j].type = "G"
          /\ Entries(0)[j].used_memory = 1
    /\ \E a, b \in 1..Len(process_tables[0]) :
          /\ process_tables[0][a].pid = 7 /\ process_tables[0][a].type = "Compute"
          /\ process_tables[0][a].used_memory = 5
          /\ process_tables[0][b].pid = 7 /\ process_tables[0][b].type = "Graphics"
          /\ process_tables[0][b].used_memory = 1

\* The latest save_settings call.
LatestSave == save_log[Len(save_log)]

\* The input of a save_settings call is invalid: a threshold text is not
\* numeric, or sound alerts are enabled with a path that is no existing
\* file and there is no beep.wav.
InvalidInput(call) ==
    \/ \E m \in Metrics : call.form.texts[m] \in {"abc", ""}
    \/ /\ call.form.sound
       /\ call.form.sound_file # ExistingWav
       /\ ~call.beep

\* C14 (as claimed): a save_settings call with invalid input changes
\* nothing, neither when it starts nor when one of its message boxes is
\* closed (the 'Quit' box of closeEvent is not one of them): thresholds,
\* sound-alert toggle and sound path are those from before the call, and
\* the alert states are left alone.
C14_InvalidSaveRejected ==
    [][(dialog' # dialog /\ "Quit" \notin {dialog, dialog'}
            /\ InvalidInput(LatestSave')) =>
          /\ thresholds' = LatestSave'.pre.thresholds
          /\ sound_alert' = LatestSave'.pre.sound_alert
          /\ sound_file' = LatestSave'.pre.sound_file
          /\ alert_states' = alert_states]_vars

\* The configurations in effect before, between and after the save_settings
\* calls so far.
WholeConfigs ==
    IF save_log = <<>> THEN {Config}
    ELSE {save_log[k].pre : k \in 1..Len(save_log)}
         \cup {save_log[k].stages[Len(save_log[k].stages)].config :
                  k \in 1..Len(save_log)}

\* C15 (as claimed): the configuration a tick ran with is the whole
\* configuration from before or from after a settings save, also when the
\* timer fired while a message box of save_settings was open, and every
\* alert of the tick was compared with that configuration's threshold.
C15_ConfigReplacedAtomically ==
    log # <<>> =>
        /\ last.config \in WholeConfigs
        /\ \A k \in 1..Len(last.tick.triggered) :
              last.tick.triggered[k].threshold
                  = last.config.thresholds[last.tick.triggered[k].metric]

\* The telemetry backend is unavailable at start-up.
BackendUnavailable ==
    \/ backend.smi # "returncode 0"
    \/ backend.nvml_init # "ok"
    \/ ~backend.enumeration.ok

\* C16: on a machine whose backend is unavailable the application never
\* gets to run: the timer is never started, no tick runs, nothing is
\* appended to a history buffer and no alert state is set; once the
\* constructor is left the failure has been reported once and the process
\* has ended with a non-zero status.
C16_FailedStartupNeverTicks ==
    BackendUnavailable =>
        /\ phase \in {"starting", "exited"}
        /\ ~timer_active
        /\ timeouts = 0
        /\ log = <<>>
        /\ \A d \in DOMAIN data_buffers : data_buffers[d] = EmptyBuffer
        /\ \A m \in Metrics : ~alert_states[m]
        /\ phase = "exited" => (exit_status > 0 /\ reports = 1)
        /\ phase = "starting" => (exit_status = -1 /\ reports = 0)

\* C16 witness: nvidia-smi is there but nvmlInit failed; the process has
\* exited with status 1 after one report and no tick.
C16_Witness ==
    /\ backend.smi = "returncode 0"
    /\ backend.nvml_init = "NVMLError"
    /\ phase = "exited"
    /\ exit_status = 1
    /\ reports = 1
    /\ timeouts = 0

\* check_alerts of the latest tick was entered and returned.
AlertsCompleted ==
    /\ log # <<>>
    /\ "alerts" \in Range(last.tick.steps)
    /\ last.tick.error # "alerts"

\* C17: after a check_alerts call that returned, over a sample list that
\* is not empty, each of the four flags is set exactly when the value of
\* the last device of the list exceeds the metric's threshold.
C17_FlagFollowsLastDevice ==
    (AlertsCompleted /\ last.tick.stats # <<>>) =>
        \A m \in Metrics :
            alert_states[m] <=>
                (last.tick.stats[Len(last.tick.stats)][m] > last.config.thresholds[m])

\* C17 witness: of two devices the first is hot and the second cool; the
\* flags were clear before the tick, the first device raised its four
\* alerts, and every flag is clear after the tick.
C17_Witness ==
    /\ AlertsCompleted
    /\ device_count = 2
    /\ last.raw = <<Hot, Cool>>
    /\ \A m \in Metrics : ~last.pre.alert_states[m]
    /\ Len(last.tick.triggered) = 4
    /\ \A m \in Metrics : ~alert_states[m]

\* The metric a query feeds to check_alerts.
AlertMetricOf(q) == IF q = "temperature" THEN "temperature" ELSE "power_draw"

\* The evaluation of the flags that follows device d's in tick k: the next
\* device of the same tick, or the first device of the next tick whose
\* check_alerts was entered; <<0, 0>> when there is none yet.
NextEvaluation(k, d) ==
    IF Evaluated(k, d + 1) THEN <<k, d + 1>>
    ELSE IF \E j \in (k + 1)..Len(log) : Evaluated(j, 0)
         THEN <<CHOOSE j \in (k + 1)..Len(log) :
                    /\ Evaluated(j, 0)
                    /\ \A i \in (k + 1)..(j - 1) : ~Evaluated(i, 0), 0>>
         ELSE <<0, 0>>

\* C18: a metric whose query failed is evaluated as 0: that evaluation
\* raises no event and leaves the flag clear, so that the next evaluation
\* of the flag raises an event exactly when its value exceeds the
\* threshold, whether or not the flag was set before the failed query; a
\* breach of a single device that lasts across a failed query is therefore
\* alerted again.
C18_FailedQueryRearms ==
    /\ log # <<>> =>
          \A d \in Devices, q \in {"temperature", "power"} :
              (Fails(last.faults, d, q) /\ last.tick.checked > d) =>
                  /\ last.tick.stats[d + 1][AlertMetricOf(q)] = 0
                  /\ ~Alerted(Len(log), d, AlertMetricOf(q))
                  /\ last.tick.checked = d + 1 =>
                        ~alert_states[AlertMetricOf(q)]
    /\ \A k \in 1..Len(log) : \A d \in Devices, m \in {"temperature", "power_draw"} :
          (Evaluated(k, d) /\ ValueAt(k, d, m) = 0) =>
              /\ ~Alerted(k, d, m)
              /\ LET n == NextEvaluation(k, d)
                 IN n[1] > 0 =>
                       (Alerted(n[1], n[2], m)
                            <=> ValueAt(n[1], n[2], m) > thresholds[m])

\* C18 witness: a single device at 85 degrees in three ticks, the
\* temperature query failing in the second: 85, 0, 85 were evaluated and
\* the temperature alert was raised in the first and again in the third.
C18_Witness ==
    /\ device_count = 1
    /\ Len(log) = 3
    /\ \A k \in 1..3 : Evaluated(k, 0)
    /\ [k \in 1..3 |-> ValueAt(k, 0, "temperature")] = <<85, 0, 85>>
    /\ log[2].faults = 1
    /\ last.raw = <<Hot>>
    /\ {k \in 1..3 : Alerted(k, 0, "temperature")} = {1, 3}

\* Sampling raises in the latest tick: a device handle cannot be obtained,
\* or a memory query answers total = 0.
SamplingRaises ==
    /\ log # <<>>
    /\ \E d \in Devices :
          \/ HandleFault(d) \in last.faults
          \/ /\ ~Fails(last.faults, d, "memory")
             /\ last.raw[d + 1].mem_total = 0

\* C19: a tick in which sampling raises changes no alert flag and no
\* history buffer and raises no alert event (nor does it touch the process
\* tables).
C19_FailedSamplingChangesNothing ==
    SamplingRaises =>
        /\ last.tick.error = "sample"
        /\ alert_states = last.pre.alert_states
        /\ data_buffers = last.pre.data_buffers
        /\ process_tables = last.pre.process_tables
        /\ last.tick.triggered = <<>>
        /\ last.tick.printed = <<>>
        /\ last.tick.appended = 0

\* C19 witness: with flags set and two samples in the history, the handle
\* of the second of two hot devices could not be obtained (the first was
\* sampled): flags and history are as before.
C19_Witness ==
    /\ SamplingRaises
    /\ device_count = 2
    /\ last.faults = {HandleFault(1)}
    /\ last.raw = <<Hot, Hot>>
    /\ \A m \in Metrics : alert_states[m]
    /\ Len(data_buffers[0].time) = 2
    /\ Len(log) = 3

====
